---- MODULE Spec2Model ----
(***************************************************************************)
(* Model of IPAllocToSMP.py: the requester-proposing Gale-Shapley matching *)
(* of Autonomous Systems (AS) with IP blocks, the preference ranking that  *)
(* feeds it, and the aggregation count it is compared by.                  *)
(*                                                                         *)
(* An AS id 'ASi' is the integer i.  A CIDR string "a.b.c.d/p" is the      *)
(* tuple <<a, b, c, d, p>>; two tuples are equal exactly when the strings  *)
(* are.  A dict is a function; the order of its keys is kept beside it     *)
(* where the code depends on it (as_keys).                                 *)
(***************************************************************************)
EXTENDS Integers, Sequences, FiniteSets, TLC

VARIABLES
    autonomousSystems,  \* dict AS id -> home CIDR
    ipBlocks,           \* list of CIDR
    as_keys,            \* key order of as_prefs (list(as_prefs.keys()))
    as_prefs,           \* dict AS id -> list of CIDR, most preferred first
    ip_prefs,           \* dict CIDR -> list of AS id, most preferred first
    free_as,            \* gale_shapley: the free queue
    engagements,        \* gale_shapley: dict AS id -> CIDR (the result)
    proposals,          \* gale_shapley: dict CIDR -> AS id or None
    as_id,              \* gale_shapley: the requester popped last
    k,                  \* gale_shapley: position of the for loop in as_prefs[as_id]
    pc,                 \* position of the program
    attempts,           \* history: iterations of the inner loop so far
    tried,              \* history: AS id -> blocks it has proposed to
    total_aggregations, \* result of count_aggregations(matchings, ...)
    random_matchings,   \* result of random_match_and_count_aggregations
    rand_aggregations   \* its aggregation count

vars == <<autonomousSystems, ipBlocks, as_keys, as_prefs, ip_prefs, free_as,
          engagements, proposals, as_id, k, pc, attempts, tried,
          total_aggregations, random_matchings, rand_aggregations>>

gsVars == <<free_as, engagements, proposals, as_id, k, attempts, tried>>
inputVars == <<autonomousSystems, ipBlocks, as_keys, as_prefs, ip_prefs>>
harnessVars == <<total_aggregations, random_matchings, rand_aggregations>>

(***************************************************************************)
(* Bounds.                                                                 *)
(***************************************************************************)
\* requesters plus blocks of one run of gale_shapley on arbitrary preference maps
MaxEntities == 5
\* requesters plus blocks of one trial of the harness
MaxTrial == 4
\* candidates of one call of a rank function
MaxCandidates == 3
\* the history counter attempts stops counting here (above every n * m)
AttemptCap == (MaxEntities * MaxEntities) + 1

None == 0
EmptyMap == [x \in {} |-> None]

\* the bit width of an IPv4 address (max_prefixlen)
ADDRESS_WIDTH == 32

\* CIDR strings the inputs are drawn from
Pool == << <<10, 0, 7, 1, 24>>,
           <<192, 168, 0, 1, 24>>,
           <<10, 0, 5, 1, 24>>,
           <<10, 0, 4, 1, 22>>,
           <<10, 0, 0, 0, 24>>,
           <<10, 0, 0, 0, 23>>,
           <<10, 0, 1, 0, 24>>,
           <<192, 168, 0, 0, 24>>,
           <<0, 0, 0, 0, 0>> >>

(***************************************************************************)
(* Helpers for Python lists and dicts.                                     *)
(***************************************************************************)
Range(s) == {s[i] : i \in DOMAIN s}

\* list.index(x): the 0-based position of the first x
Index(s, x) == (CHOOSE i \in 1..Len(s) : s[i] = x /\ \A j \in 1..(i - 1) : s[j] # x) - 1

\* d[key] = value
DictSet(d, key, value) ==
    [x \in (DOMAIN d) \cup {key} |-> IF x = key THEN value ELSE d[x]]

\* del d[key]
DictDel(d, key) == [x \in (DOMAIN d) \ {key} |-> d[x]]

\* every list that holds each element of S exactly once
Perms(S) ==
    {s \in [1..Cardinality(S) -> S] : \A x \in S : \E i \in DOMAIN s : s[i] = x}

Min(a, b) == IF a <= b THEN a ELSE b

(***************************************************************************)
(* ipaddress: networks as bit strings.                                     *)
(***************************************************************************)
\* bit i (1 = most significant) of the dotted-quad address of a CIDR string
AddressBit(cidr, i) == (cidr[((i - 1) \div 8) + 1] \div (2 ^ (7 - ((i - 1) % 8)))) % 2

\* ipaddress.ip_network(cidr, strict=False): the host bits are cleared
ip_network(cidr) ==
    [network_address |-> [i \in 1..ADDRESS_WIDTH |->
                             IF i <= cidr[5] THEN AddressBit(cidr, i) ELSE 0],
     prefixlen |-> cidr[5]]

\* net.broadcast_address: the host bits are set
broadcast_address(net) ==
    [i \in 1..ADDRESS_WIDTH |-> IF i <= net.prefixlen THEN net.network_address[i] ELSE 1]

\* x <= y for two addresses, compared as unsigned integers
AddressLE(x, y) ==
    \/ x = y
    \/ LET d == CHOOSE i \in 1..ADDRESS_WIDTH :
                    x[i] # y[i] /\ \A j \in 1..(i - 1) : x[j] = y[j]
       IN  x[d] < y[d]

\* a.supernet_of(b)
supernet_of(a, b) ==
    /\ AddressLE(a.network_address, b.network_address)
    /\ AddressLE(broadcast_address(b), broadcast_address(a))

\* net.supernet(new_prefix=p) raises ValueError
supernet_raises(net, p) == net.prefixlen # 0 /\ (p > net.prefixlen \/ p < 0)

\* net.supernet(new_prefix=p) when it does not raise; a /0 network returns itself
supernet(net, p) ==
    IF net.prefixlen = 0
    THEN net
    ELSE [network_address |-> [i \in 1..ADDRESS_WIDTH |->
                                  IF i <= p THEN net.network_address[i] ELSE 0],
          prefixlen |-> p]

\* slip: only the first network is tried as the supernet
can_aggregate_OneWay(cidr1, cidr2) ==
    LET network1 == ip_network(cidr1)
        network2 == ip_network(cidr2)
    IN  supernet_of(network1, network2)

\* slip: the supernet test is left out
can_aggregate_SiblingsOnly(cidr1, cidr2) ==
    LET network1 == ip_network(cidr1)
        network2 == ip_network(cidr2)
        smaller_prefix == IF network1.prefixlen > network2.prefixlen
                          THEN network2.prefixlen
                          ELSE network1.prefixlen
    IN  IF \/ supernet_raises(network1, smaller_prefix - 1)
           \/ supernet_raises(network2, smaller_prefix - 1)
        THEN FALSE
        ELSE supernet(network1, smaller_prefix - 1) = supernet(network2, smaller_prefix - 1)

can_aggregate(cidr1, cidr2) ==
    LET network1 == ip_network(cidr1)
        network2 == ip_network(cidr2)
        smaller_prefix == IF network1.prefixlen > network2.prefixlen
                          THEN network2.prefixlen
                          ELSE network1.prefixlen
    IN  IF supernet_of(network1, network2) \/ supernet_of(network2, network1)
        THEN TRUE
        ELSE IF \/ supernet_raises(network1, smaller_prefix - 1)
                \/ supernet_raises(network2, smaller_prefix - 1)
        THEN FALSE
        ELSE supernet(network1, smaller_prefix - 1) = supernet(network2, smaller_prefix - 1)

\* the number of leading bits on which the two network addresses agree
get_common_prefix_length(net1, net2) ==
    LET differ == {i \in 1..ADDRESS_WIDTH : net1.network_address[i] # net2.network_address[i]}
    IN  IF differ = {}
        THEN ADDRESS_WIDTH
        ELSE (CHOOSE i \in differ : \A j \in differ : i <= j) - 1

Abs(x) == IF x < 0 THEN -x ELSE x

(***************************************************************************)
(* Preference ranking.                                                     *)
(***************************************************************************)
\* slip: the difference of the prefix lengths is taken without abs()
total_score_Signed(as_network, ip_net) ==
    LET prefix_diff == as_network.prefixlen - ip_net.prefixlen
        aggregateability_score == 32 - prefix_diff
        lcpl == get_common_prefix_length(as_network, ip_net)
    IN  (lcpl * 2) + aggregateability_score

\* total_score of rank_ip_blocks_for_as: the score of block ip_net for as_network
total_score(as_network, ip_net) ==
    LET prefix_diff == Abs(as_network.prefixlen - ip_net.prefixlen)
        aggregateability_score == 32 - prefix_diff
        lcpl == get_common_prefix_length(as_network, ip_net)
    IN  (lcpl * 2) + aggregateability_score

\* total_score of rank_as_for_ip_blocks: the score of requester as_network for ip_net
total_score_as(ip_net, as_network) ==
    LET prefix_diff == Abs(ip_net.prefixlen - as_network.prefixlen)
        aggregateability_score == 32 - prefix_diff
        lcpl == get_common_prefix_length(ip_net, as_network)
    IN  (lcpl * 2) + aggregateability_score

\* slip: an entry goes ahead of the entries of its own score
InsertDesc_Unstable(sorted, e) ==
    LET ahead == {i \in 1..Len(sorted) : sorted[i][2] > e[2]}
        n == IF ahead = {} THEN 0 ELSE CHOOSE i \in ahead : \A j \in ahead : j <= i
    IN  SubSeq(sorted, 1, n) \o <<e>> \o SubSeq(sorted, n + 1, Len(sorted))

\* slip: reverse=True is left out, lowest score first
InsertDesc_Ascending(sorted, e) ==
    LET ahead == {i \in 1..Len(sorted) : sorted[i][2] <= e[2]}
        n == IF ahead = {} THEN 0 ELSE CHOOSE i \in ahead : \A j \in ahead : j <= i
    IN  SubSeq(sorted, 1, n) \o <<e>> \o SubSeq(sorted, n + 1, Len(sorted))

\* slip: an entry takes the place of an entry of its own score
InsertDesc_Dedup(sorted, e) ==
    LET same == {i \in 1..Len(sorted) : sorted[i][2] = e[2]}
        ahead == {i \in 1..Len(sorted) : sorted[i][2] >= e[2]}
        n == IF ahead = {} THEN 0 ELSE CHOOSE i \in ahead : \A j \in ahead : j <= i
    IN  IF same = {}
        THEN SubSeq(sorted, 1, n) \o <<e>> \o SubSeq(sorted, n + 1, Len(sorted))
        ELSE [i \in 1..Len(sorted) |-> IF i = n THEN e ELSE sorted[i]]

\* one step of the stable descending sort: e goes behind every entry whose
\* score is at least its own
InsertDesc(sorted, e) ==
    LET ahead == {i \in 1..Len(sorted) : sorted[i][2] >= e[2]}
        n == IF ahead = {} THEN 0 ELSE CHOOSE i \in ahead : \A j \in ahead : j <= i
    IN  SubSeq(sorted, 1, n) \o <<e>> \o SubSeq(sorted, n + 1, Len(sorted))

\* ranking.sort(key=lambda x: x[1], reverse=True): stable, highest score first
RECURSIVE SortDesc(_)
SortDesc(ranking) ==
    IF ranking = <<>>
    THEN <<>>
    ELSE InsertDesc(SortDesc(SubSeq(ranking, 1, Len(ranking) - 1)), ranking[Len(ranking)])

rank_ip_blocks_for_as(as_cidr, ip_blocks) ==
    LET as_network == ip_network(as_cidr)
        ranking == [i \in 1..Len(ip_blocks) |->
                       <<ip_blocks[i], total_score(as_network, ip_network(ip_blocks[i]))>>]
        sorted == SortDesc(ranking)
    IN  [i \in 1..Len(sorted) |-> sorted[i][1]]

\* keys is the key order of the dict systems
rank_as_for_ip_blocks(ip_cidr, keys, systems) ==
    LET ip_net == ip_network(ip_cidr)
        ranking == [i \in 1..Len(keys) |->
                       <<keys[i], total_score_as(ip_net, ip_network(systems[keys[i]]))>>]
        sorted == SortDesc(ranking)
    IN  [i \in 1..Len(sorted) |-> sorted[i][1]]

count_aggregations(matchings, systems) ==
    Cardinality({a \in DOMAIN matchings : can_aggregate(systems[a], matchings[a])})

(***************************************************************************)
(* gale_shapley(as_prefs, ip_prefs).                                       *)
(* pc = "while": at the test of the while loop; "for": inside the for loop *)
(* over as_prefs[as_id], about to look at entry k; "done": returned;       *)
(* "raised": left by a KeyError or ValueError.                             *)
(***************************************************************************)
\* the state at entry of gale_shapley
GsInit ==
    /\ free_as = as_keys
    /\ engagements = EmptyMap
    /\ proposals = [ip \in DOMAIN ip_prefs |-> None]
    /\ as_id = None
    /\ k = 0
    /\ pc = "while"
    /\ attempts = 0
    /\ tried = [a \in DOMAIN as_prefs |-> {}]

\* slip: the head is read but left in the queue
PopFront_Keep(queue) == queue

\* free_as after free_as.pop(0)
PopFront(queue) == Tail(queue)

\* slip: the list is walked from its least preferred end
ForEntry_Reversed(prefs, i) == prefs[(Len(prefs) - i) + 1]

\* the entry the for loop looks at in its k-th iteration (k = 1 is the first)
ForEntry(prefs, i) == prefs[i]

\* slip: the comparison is turned round
Preferred_Reversed(ip, proposer, current_as) ==
    Index(ip_prefs[ip], proposer) > Index(ip_prefs[ip], current_as)

\* slip: a claimed block never switches
Preferred_Never(ip, proposer, current_as) == FALSE

\* ip_prefs[ip].index(as_id) < ip_prefs[ip].index(current_as)
Preferred(ip, proposer, current_as) ==
    Index(ip_prefs[ip], proposer) < Index(ip_prefs[ip], current_as)

\* slip: the displaced requester is not put back
Requeue_Drop(queue, current_as) == queue

\* free_as after free_as.append(current_as)
Requeue(queue, current_as) == Append(queue, current_as)

\* slip: the displaced requester keeps its entry
Release_Keep(eng, current_as) == eng

\* if current_as in engagements: del engagements[current_as]
Release(eng, current_as) ==
    IF current_as \in DOMAIN eng THEN DictDel(eng, current_as) ELSE eng

\* the lookups of one iteration raise: proposals[ip], or index() of an absent value
LookupRaises(ip) ==
    \/ ip \notin DOMAIN proposals
    \/ /\ proposals[ip] # None
       /\ \/ ip \notin DOMAIN ip_prefs
          \/ as_id \notin Range(ip_prefs[ip])
          \/ proposals[ip] \notin Range(ip_prefs[ip])

Count(n) == IF n < AttemptCap THEN n + 1 ELSE n

\* while free_as: as_id = free_as.pop(0); the for loop starts at the head of the list
Pop ==
    /\ pc = "while"
    /\ free_as # <<>>
    /\ as_id' = Head(free_as)
    /\ free_as' = PopFront(free_as)
    /\ k' = 1
    /\ pc' = "for"
    /\ UNCHANGED <<engagements, proposals, attempts, tried>>
    /\ UNCHANGED <<inputVars, harnessVars>>

\* one iteration of the for loop: as_id proposes to ip
Propose ==
    /\ pc = "for"
    /\ k <= Len(as_prefs[as_id])
    /\ LET ip == ForEntry(as_prefs[as_id], k)
       IN  /\ attempts' = Count(attempts)
           /\ tried' = [tried EXCEPT ![as_id] = @ \cup {ip}]
           /\ IF LookupRaises(ip)
              THEN /\ pc' = "raised"
                   /\ UNCHANGED <<free_as, engagements, proposals, k>>
              ELSE \/ /\ proposals[ip] = None
                      /\ proposals' = DictSet(proposals, ip, as_id)
                      /\ engagements' = DictSet(engagements, as_id, ip)
                      /\ pc' = "while"
                      /\ UNCHANGED <<free_as, k>>
                   \/ /\ proposals[ip] # None
                      /\ Preferred(ip, as_id, proposals[ip])
                      /\ free_as' = Requeue(free_as, proposals[ip])
                      /\ proposals' = DictSet(proposals, ip, as_id)
                      /\ engagements' = Release(DictSet(engagements, as_id, ip), proposals[ip])
                      /\ pc' = "while"
                      /\ UNCHANGED k
                   \/ /\ proposals[ip] # None
                      /\ ~Preferred(ip, as_id, proposals[ip])
                      /\ k' = k + 1
                      /\ UNCHANGED <<free_as, engagements, proposals, pc>>
    /\ UNCHANGED as_id
    /\ UNCHANGED <<inputVars, harnessVars>>

\* the for loop runs off the end of as_prefs[as_id]: no break, as_id stays unmatched
ForEnd ==
    /\ pc = "for"
    /\ k > Len(as_prefs[as_id])
    /\ pc' = "while"
    /\ UNCHANGED gsVars
    /\ UNCHANGED <<inputVars, harnessVars>>

\* free_as is empty: return engagements
Return ==
    /\ pc = "while"
    /\ free_as = <<>>
    /\ pc' = "done"
    /\ UNCHANGED gsVars
    /\ UNCHANGED <<inputVars, harnessVars>>

(***************************************************************************)
(* gale_shapley on every well-formed pair of preference maps: each         *)
(* requester's list holds every block once, each block's list holds every  *)
(* requester once, and the keys of as_prefs stand in any order.            *)
(***************************************************************************)
Init ==
    /\ \E n \in 0..MaxEntities : \E m \in 0..(MaxEntities - n) :
          LET requesters == 1..n
              blocks == {Pool[j] : j \in 1..m}
          IN  /\ autonomousSystems = [a \in requesters |-> Pool[a]]
              /\ ipBlocks = SubSeq(Pool, 1, m)
              /\ as_keys \in Perms(requesters)
              /\ as_prefs \in [requesters -> Perms(blocks)]
              /\ ip_prefs \in [blocks -> Perms(requesters)]
    /\ GsInit
    /\ total_aggregations = 0
    /\ random_matchings = EmptyMap
    /\ rand_aggregations = 0

Next == Pop \/ Propose \/ ForEnd \/ Return

Spec == Init /\ [][Next]_vars

\* the loop is sequential code: it keeps running while a step is possible
FairSpec == Init /\ [][Next]_vars /\ WF_vars(Next)

(***************************************************************************)
(* One trial of the harness (lines 268-284): the preference maps are       *)
(* ranked from the generated requesters and blocks, gale_shapley runs on   *)
(* them, its pairs are counted and a shuffled pairing is counted.          *)
(***************************************************************************)
\* total_aggregations = count_aggregations(matchings, autonomousSystems)
CountAggregations ==
    /\ pc = "done"
    /\ total_aggregations' = count_aggregations(engagements, autonomousSystems)
    /\ pc' = "counted"
    /\ UNCHANGED <<random_matchings, rand_aggregations>>
    /\ UNCHANGED <<inputVars, gsVars>>

\* every order random.shuffle can leave the list in
Shuffles(ips) == {[i \in 1..Len(ips) |-> ips[p[i]]] : p \in Perms(1..Len(ips))}

\* dict(zip(as_ids, ips))
ZipDict(as_ids, ips) ==
    [a \in {as_ids[i] : i \in 1..Min(Len(as_ids), Len(ips))} |->
        ips[CHOOSE i \in 1..Min(Len(as_ids), Len(ips)) :
                as_ids[i] = a /\ \A j \in (i + 1)..Min(Len(as_ids), Len(ips)) : as_ids[j] # a]]

\* random_match_and_count_aggregations(autonomousSystems, ipBlocks)
RandomMatch ==
    /\ pc = "counted"
    /\ \E ips \in Shuffles(ipBlocks) :
          /\ random_matchings' = ZipDict(as_keys, ips)
          /\ rand_aggregations' = count_aggregations(ZipDict(as_keys, ips), autonomousSystems)
    /\ pc' = "compared"
    /\ UNCHANGED total_aggregations
    /\ UNCHANGED <<inputVars, gsVars>>

\* autonomousSystems, ipBlocks = generate_as_ip_blocks(n, m); nothing is ranked yet
Generated(n, m) ==
    /\ autonomousSystems \in [1..n -> Range(Pool)]
    /\ ipBlocks \in [1..m -> Range(Pool)]
    /\ as_keys = [i \in 1..n |-> i]
    /\ as_prefs = EmptyMap
    /\ ip_prefs = EmptyMap
    /\ free_as = <<>>
    /\ engagements = EmptyMap
    /\ proposals = EmptyMap
    /\ as_id = None
    /\ k = 0
    /\ pc = "generated"
    /\ attempts = 0
    /\ tried = EmptyMap
    /\ total_aggregations = 0
    /\ random_matchings = EmptyMap
    /\ rand_aggregations = 0

\* the two dict comprehensions (lines 270-271) and the entry of gale_shapley
Rank ==
    /\ pc = "generated"
    /\ as_prefs' = [a \in DOMAIN autonomousSystems |->
                       rank_ip_blocks_for_as(autonomousSystems[a], ipBlocks)]
    /\ ip_prefs' = [ip \in Range(ipBlocks) |->
                       rank_as_for_ip_blocks(ip, as_keys, autonomousSystems)]
    /\ free_as' = as_keys
    /\ engagements' = EmptyMap
    /\ proposals' = [ip \in Range(ipBlocks) |-> None]
    /\ tried' = [a \in DOMAIN autonomousSystems |-> {}]
    /\ pc' = "while"
    /\ UNCHANGED <<autonomousSystems, ipBlocks, as_keys, as_id, k, attempts>>
    /\ UNCHANGED harnessVars

InitHarness == \E n \in 0..MaxTrial : \E m \in 0..(MaxTrial - n) : Generated(n, m)

NextHarness ==
    Rank \/ Pop \/ Propose \/ ForEnd \/ Return \/ CountAggregations \/ RandomMatch

SpecHarness == InitHarness /\ [][NextHarness]_vars

(***************************************************************************)
(* The rank functions alone: one requester with up to MaxCandidates blocks *)
(* (rank_ip_blocks_for_as), or one block with up to MaxCandidates          *)
(* requesters (rank_as_for_ip_blocks).                                     *)
(***************************************************************************)
InitRank ==
    \E n \in 0..MaxCandidates : \E m \in 0..MaxCandidates :
        /\ n = 1 \/ m = 1
        /\ Generated(n, m)

NextRank == Rank

SpecRank == InitRank /\ [][NextRank]_vars

(***************************************************************************)
(* Properties of gale_shapley.                                             *)
(***************************************************************************)
Requesters == DOMAIN as_prefs
Blocks == DOMAIN ip_prefs
NumAS == Cardinality(Requesters)
NumIP == Cardinality(Blocks)

\* the requesters that hold block b in the mapping mu
Holders(mu, b) == {a \in DOMAIN mu : mu[a] = b}

IsOneToOne(mu) == \A a1, a2 \in DOMAIN mu : a1 # a2 => mu[a1] # mu[a2]

\* a and b are not matched to each other and each prefers the other to what it has
Blocking(mu, a, b) ==
    /\ a \notin DOMAIN mu \/ mu[a] # b
    /\ a \notin DOMAIN mu \/ Index(as_prefs[a], b) < Index(as_prefs[a], mu[a])
    /\ \A h \in Holders(mu, b) : Index(ip_prefs[b], a) < Index(ip_prefs[b], h)

IsStable(mu) == \A a \in Requesters : \A b \in Blocks : ~Blocking(mu, a, b)

\* every one-to-one pairing of some requesters with blocks
Matchings ==
    UNION {{mu \in [S -> Blocks] : IsOneToOne(mu)} : S \in SUBSET Requesters}

StableMatchings == {mu \in Matchings : IsStable(mu)}

\* a requester was displaced during the run: it proposed to more blocks than
\* the one it holds, or it holds none
WasTurnedDown(a) ==
    \E b \in tried[a] : a \notin DOMAIN engagements \/ engagements[a] # b

\* C1: the mapping gale_shapley returns is one-to-one: no block is assigned to
\* two requesters (a dict gives no requester two blocks).
C1_OneToOne == pc = "done" => IsOneToOne(engagements)

C1_Witness ==
    /\ pc = "done"
    /\ Cardinality(DOMAIN engagements) >= 2
    /\ \E a \in Requesters : a \notin DOMAIN engagements /\ tried[a] = Blocks

\* C2: the mapping gale_shapley returns is stable: no requester and block that
\* are not matched to each other both prefer each other to what they have.
C2_Stable == pc = "done" => IsStable(engagements)

C2_Witness ==
    /\ pc = "done"
    /\ NumAS >= 2
    /\ NumIP >= 2
    /\ \E a \in DOMAIN engagements : WasTurnedDown(a)
    /\ \E mu \in Matchings : Cardinality(DOMAIN mu) = Min(NumAS, NumIP) /\ ~IsStable(mu)

\* C3: the mapping is requester-optimal: a requester matched in some stable
\* matching is matched in the result too, to a block it ranks at least as high.
C3_RequesterOptimal ==
    pc = "done" =>
        \A mu \in StableMatchings : \A a \in DOMAIN mu :
            /\ a \in DOMAIN engagements
            /\ Index(as_prefs[a], engagements[a]) <= Index(as_prefs[a], mu[a])

C3_Witness ==
    /\ pc = "done"
    /\ \E mu \in StableMatchings : \E a \in DOMAIN mu :
          /\ a \in DOMAIN engagements
          /\ Index(as_prefs[a], engagements[a]) < Index(as_prefs[a], mu[a])

\* C4: the mapping is block-pessimal: the holder of a claimed block is ranked
\* by the block no higher than its holder in any stable matching.
C4_BlockPessimal ==
    pc = "done" =>
        \A mu \in StableMatchings : \A a \in DOMAIN engagements :
            \A h \in Holders(mu, engagements[a]) :
                Index(ip_prefs[engagements[a]], a) >= Index(ip_prefs[engagements[a]], h)

C4_Witness ==
    /\ pc = "done"
    /\ \E mu \in StableMatchings : \E a \in DOMAIN engagements :
          \E h \in Holders(mu, engagements[a]) :
              Index(ip_prefs[engagements[a]], a) > Index(ip_prefs[engagements[a]], h)

\* C5: gale_shapley terminates: the free queue runs empty and the function returns.
C5_Terminates == <>(pc = "done")

C5_Witness ==
    /\ pc = "done"
    /\ free_as = <<>>
    /\ \E a \in DOMAIN engagements : WasTurnedDown(a)
    /\ \E a \in Requesters : a \notin DOMAIN engagements /\ tried[a] = Blocks

\* C6: the iterations of the inner loop of one run never exceed n * m.
C6_AttemptsWithinBound == attempts <= NumAS * NumIP

\* C7: gale_shapley raises no error and returns exactly min(n, m) pairs: with
\* n <= m every requester is matched; with n > m every block is claimed and the
\* n - m requesters left out have each gone through their whole list.
C7_MinPairs ==
    /\ pc # "raised"
    /\ pc = "done" =>
          /\ Cardinality(DOMAIN engagements) = Min(NumAS, NumIP)
          /\ NumAS <= NumIP => DOMAIN engagements = Requesters
          /\ NumAS > NumIP =>
                /\ Range(engagements) = Blocks
                /\ \A b \in Blocks : proposals[b] # None
                /\ Cardinality(Requesters \ DOMAIN engagements) = NumAS - NumIP
                /\ \A a \in Requesters \ DOMAIN engagements : tried[a] = Blocks

C7_Witness ==
    /\ pc = "done"
    /\ NumAS = 3
    /\ NumIP = 2
    /\ Cardinality(DOMAIN engagements) = 2

\* C8: with two requesters and one block the result is the single pair of the
\* block with the requester it ranks first, whatever the order of the queue.
C8_TwoRequestersOneBlock ==
    (pc = "done" /\ NumAS = 2 /\ NumIP = 1) =>
        \A b \in Blocks : engagements = DictSet(EmptyMap, ip_prefs[b][1], b)

C8_Witness ==
    /\ pc = "done"
    /\ NumAS = 2
    /\ NumIP = 1
    /\ \E b \in Blocks : ip_prefs[b][1] = as_keys[2] /\ engagements = DictSet(EmptyMap, as_keys[2], b)

(***************************************************************************)
(* Properties of one trial.                                                *)
(***************************************************************************)
\* as many blocks as requesters, and no block listed twice
EqualSets ==
    /\ Len(ipBlocks) = Len(as_keys)
    /\ \A i, j \in 1..Len(ipBlocks) : i # j => ipBlocks[i] # ipBlocks[j]

RECURSIVE SumCounts(_)
\* the aggregation counts of a set of shuffles, added up
SumCounts(shuffles) ==
    IF shuffles = {}
    THEN 0
    ELSE LET ips == CHOOSE x \in shuffles : TRUE
         IN  count_aggregations(ZipDict(as_keys, ips), autonomousSystems)
                 + SumCounts(shuffles \ {ips})

\* C9: the stable matching has at least as many aggregatable pairs as every
\* pairing the shuffle can produce.
C9_NeverWorseThanRandom ==
    (pc = "compared" /\ EqualSets) => total_aggregations >= rand_aggregations

\* C10: the stable matching has at least the mean number of aggregatable pairs
\* of the equally likely shuffled pairings.
C10_NoWorseThanMean ==
    (pc = "counted" /\ EqualSets) =>
        total_aggregations * Cardinality(Shuffles(ipBlocks)) >= SumCounts(Shuffles(ipBlocks))

(***************************************************************************)
(* Properties of can_aggregate, on the requesters' home blocks and the     *)
(* blocks of a trial whose pairs count_aggregations has counted.           *)
(***************************************************************************)
\* the CIDR strings of the trial
TrialCidrs == Range(autonomousSystems) \cup Range(ipBlocks)

Nested(x, y) ==
    \/ supernet_of(ip_network(x), ip_network(y))
    \/ supernet_of(ip_network(y), ip_network(x))

\* same prefix length p >= 1, the same first p - 1 bits, and a different bit p
AdjacentSiblings(x, y) ==
    LET nx == ip_network(x)
        ny == ip_network(y)
    IN  /\ nx.prefixlen = ny.prefixlen
        /\ nx.prefixlen >= 1
        /\ \A i \in 1..(nx.prefixlen - 1) : nx.network_address[i] = ny.network_address[i]
        /\ nx.network_address[nx.prefixlen] # ny.network_address[nx.prefixlen]

\* C11: can_aggregate is symmetric in its two blocks.
C11_AggregationSymmetric ==
    pc = "counted" =>
        \A x, y \in TrialCidrs : can_aggregate(x, y) = can_aggregate(y, x)

C11_Witness ==
    /\ pc = "counted"
    /\ total_aggregations >= 1
    /\ \E a \in DOMAIN engagements :
          /\ can_aggregate(autonomousSystems[a], engagements[a])
          /\ supernet_of(ip_network(engagements[a]), ip_network(autonomousSystems[a]))
          /\ ~supernet_of(ip_network(autonomousSystems[a]), ip_network(engagements[a]))

\* C12: two blocks that can_aggregate accepts and of which neither is a supernet
\* of the other are adjacent siblings of the same prefix length.
C12_AggregatableAreSiblings ==
    pc = "counted" =>
        \A x, y \in TrialCidrs :
            (can_aggregate(x, y) /\ ~Nested(x, y)) => AdjacentSiblings(x, y)

\* C13 as stated: when the shorter prefix length is 0, can_aggregate returns false.
C13_FalseAtPrefixZero ==
    pc = "counted" =>
        \A x, y \in TrialCidrs : Min(x[5], y[5]) = 0 => can_aggregate(x, y) = FALSE

\* C13 as amended: when the shorter prefix length is 0, can_aggregate returns
\* true, because the /0 block is a supernet of the other; the ValueError
\* fallback is not reached.
C13_TrueAtPrefixZero ==
    pc = "counted" =>
        \A x, y \in TrialCidrs :
            Min(x[5], y[5]) = 0 => (can_aggregate(x, y) = TRUE /\ Nested(x, y))

C13_Witness ==
    /\ pc = "counted"
    /\ total_aggregations >= 1
    /\ \E a \in DOMAIN engagements :
          /\ engagements[a][5] = 0
          /\ autonomousSystems[a][5] > 0
          /\ can_aggregate(autonomousSystems[a], engagements[a])

(***************************************************************************)
(* Properties of the rank functions, on the lists Rank has built.          *)
(***************************************************************************)
\* how often x stands in the list s
Occurrences(s, x) == Cardinality({i \in DOMAIN s : s[i] = x})

\* the entries of s that satisfy Keep, in their order in s
RECURSIVE Filter(_, _)
Filter(s, keep) ==
    IF s = <<>>
    THEN <<>>
    ELSE IF Head(s) \in keep
    THEN <<Head(s)>> \o Filter(Tail(s), keep)
    ELSE Filter(Tail(s), keep)

\* total_score of rank_ip_blocks_for_as, tabulated: [home block][candidate block]
BlockScores ==
    [x \in Range(Pool) |-> [y \in Range(Pool) |-> total_score(ip_network(x), ip_network(y))]]

\* total_score of rank_as_for_ip_blocks, tabulated: [block][candidate's home block]
ASScores ==
    [x \in Range(Pool) |-> [y \in Range(Pool) |-> total_score_as(ip_network(x), ip_network(y))]]

\* the score rank_ip_blocks_for_as gives block ip when ranking for requester a
ScoreOfBlock(a, ip) == BlockScores[autonomousSystems[a]][ip]

\* the score rank_as_for_ip_blocks gives requester a when ranking for block ip
ScoreOfAS(ip, a) == ASScores[ip][autonomousSystems[a]]

Ranked == pc = "while" /\ attempts = 0 /\ free_as = as_keys

\* C14: the score is symmetric in its arguments and the same on both sides.
C14_ScoreSymmetric ==
    Ranked =>
        \A a \in DOMAIN autonomousSystems : \A ip \in Range(ipBlocks) :
            /\ ScoreOfBlock(a, ip) = ScoreOfAS(ip, a)
            /\ BlockScores[autonomousSystems[a]][ip] = BlockScores[ip][autonomousSystems[a]]
            /\ ASScores[ip][autonomousSystems[a]] = ASScores[autonomousSystems[a]][ip]

C14_Witness ==
    /\ Ranked
    /\ \E a \in DOMAIN autonomousSystems : \E ip \in Range(ipBlocks) :
          /\ autonomousSystems[a][5] < ip[5]
          /\ ScoreOfBlock(a, ip) > 32
          /\ ScoreOfBlock(a, ip) < 96

\* C15: every preference list holds every candidate as often as the candidates
\* list it (once each, the candidates being distinct) and nothing else, so it is
\* as long as the candidate list.
C15_ListsArePermutations ==
    Ranked =>
        /\ \A a \in DOMAIN as_prefs :
              /\ Len(as_prefs[a]) = Len(ipBlocks)
              /\ \A x \in Range(ipBlocks) \cup Range(as_prefs[a]) :
                    Occurrences(as_prefs[a], x) = Occurrences(ipBlocks, x)
        /\ \A ip \in DOMAIN ip_prefs :
              /\ Len(ip_prefs[ip]) = Len(as_keys)
              /\ \A x \in Range(as_keys) \cup Range(ip_prefs[ip]) :
                    Occurrences(ip_prefs[ip], x) = 1
        /\ DOMAIN as_prefs = DOMAIN autonomousSystems
        /\ DOMAIN ip_prefs = Range(ipBlocks)

C15_Witness ==
    /\ Ranked
    /\ Len(ipBlocks) = 3
    /\ Cardinality(Range(ipBlocks)) = 3
    /\ \E a \in DOMAIN as_prefs :
          /\ as_prefs[a] # ipBlocks
          /\ \E i, j \in 1..3 : i # j /\ ScoreOfBlock(a, ipBlocks[i]) = ScoreOfBlock(a, ipBlocks[j])

\* C16: every preference list is in non-increasing order of score, and the
\* candidates of one score stand in the order the input has them in.
C16_SortedAndStable ==
    Ranked =>
        /\ \A a \in DOMAIN as_prefs :
              /\ \A i, j \in DOMAIN as_prefs[a] :
                    i < j => ScoreOfBlock(a, as_prefs[a][i]) >= ScoreOfBlock(a, as_prefs[a][j])
              /\ \A x \in Range(ipBlocks) :
                    LET tie == {y \in Range(ipBlocks) : ScoreOfBlock(a, y) = ScoreOfBlock(a, x)}
                    IN  Filter(as_prefs[a], tie) = Filter(ipBlocks, tie)
        /\ \A ip \in DOMAIN ip_prefs :
              /\ \A i, j \in DOMAIN ip_prefs[ip] :
                    i < j => ScoreOfAS(ip, ip_prefs[ip][i]) >= ScoreOfAS(ip, ip_prefs[ip][j])
              /\ \A x \in Range(as_keys) :
                    LET tie == {y \in Range(as_keys) : ScoreOfAS(ip, y) = ScoreOfAS(ip, x)}
                    IN  Filter(ip_prefs[ip], tie) = Filter(as_keys, tie)

C16_Witness ==
    /\ Ranked
    /\ Len(ipBlocks) = 3
    /\ \E a \in DOMAIN as_prefs :
          /\ ScoreOfBlock(a, ipBlocks[1]) = ScoreOfBlock(a, ipBlocks[2])
          /\ ScoreOfBlock(a, ipBlocks[3]) > ScoreOfBlock(a, ipBlocks[1])
          /\ ipBlocks[1] # ipBlocks[2]
          /\ as_prefs[a] = <<ipBlocks[3], ipBlocks[1], ipBlocks[2]>>

\* C17: for home block 10.0.0.0/24 and the candidates 10.0.0.0/23, 10.0.1.0/24
\* and 192.168.0.0/24 in any input order, the list is 10.0.0.0/23, 10.0.1.0/24,
\* 192.168.0.0/24.
C17_Scenario ==
    (/\ Ranked
     /\ autonomousSystems = << <<10, 0, 0, 0, 24>> >>
     /\ Len(ipBlocks) = 3
     /\ Range(ipBlocks) = {<<10, 0, 0, 0, 23>>, <<10, 0, 1, 0, 24>>, <<192, 168, 0, 0, 24>>})
        => as_prefs[1] = << <<10, 0, 0, 0, 23>>, <<10, 0, 1, 0, 24>>, <<192, 168, 0, 0, 24>> >>

C17_Witness ==
    /\ Ranked
    /\ autonomousSystems = << <<10, 0, 0, 0, 24>> >>
    /\ ipBlocks = << <<192, 168, 0, 0, 24>>, <<10, 0, 1, 0, 24>>, <<10, 0, 0, 0, 23>> >>
    /\ as_prefs[1] = << <<10, 0, 0, 0, 23>>, <<10, 0, 1, 0, 24>>, <<192, 168, 0, 0, 24>> >>

(***************************************************************************)
(* gale_shapley as a function of the key order of as_prefs: the loop of    *)
(* lines 245-260 run from the entry state to the return, one iteration of  *)
(* the while loop at a time.                                               *)
(***************************************************************************)
\* the iteration of the for loop over as_prefs[a] that breaks, 0 if none does
BreakingEntry(prop, a) ==
    LET hits == {i \in 1..Len(as_prefs[a]) :
                    LET ip == ForEntry(as_prefs[a], i)
                    IN  prop[ip] = None \/ Preferred(ip, a, prop[ip])}
    IN  IF hits = {} THEN 0 ELSE CHOOSE i \in hits : \A j \in hits : i <= j

\* one iteration of the while loop on the locals st
WhileIteration(st) ==
    LET a == Head(st.free_as)
        rest == PopFront(st.free_as)
        i == BreakingEntry(st.proposals, a)
    IN  IF i = 0
        THEN [st EXCEPT !.free_as = rest]
        ELSE LET ip == ForEntry(as_prefs[a], i)
                 current_as == st.proposals[ip]
             IN  IF current_as = None
                 THEN [free_as |-> rest,
                       proposals |-> DictSet(st.proposals, ip, a),
                       engagements |-> DictSet(st.engagements, a, ip)]
                 ELSE [free_as |-> Requeue(rest, current_as),
                       proposals |-> DictSet(st.proposals, ip, a),
                       engagements |-> Release(DictSet(st.engagements, a, ip), current_as)]

RECURSIVE WhileLoop(_)
WhileLoop(st) == IF st.free_as = <<>> THEN st.engagements ELSE WhileLoop(WhileIteration(st))

\* the dict gale_shapley returns when the keys of as_prefs stand in the order keys
gale_shapley(keys) ==
    WhileLoop([free_as |-> keys,
               proposals |-> [ip \in DOMAIN ip_prefs |-> None],
               engagements |-> EmptyMap])

(***************************************************************************)
(* Properties of the run of gale_shapley.                                  *)
(***************************************************************************)
\* C18: no requester proposes to the same block twice: the block an iteration
\* of the for loop looks at is one the requester has not proposed to before.
C18_NoRepeatedProposal ==
    [][(pc = "for" /\ k <= Len(as_prefs[as_id]))
          => ForEntry(as_prefs[as_id], k) \notin tried[as_id]]_vars

\* C19: at the start of every iteration of the while loop proposals and
\* engagements are inverse maps, free_as holds no requester twice, and no
\* requester in free_as is in engagements or held by a block.
C19_LoopInvariant ==
    pc = "while" =>
        /\ \A b \in DOMAIN proposals : \A a \in Requesters :
              proposals[b] = a <=> (a \in DOMAIN engagements /\ engagements[a] = b)
        /\ \A a \in DOMAIN engagements :
              engagements[a] \in DOMAIN proposals /\ proposals[engagements[a]] = a
        /\ \A i, j \in DOMAIN free_as : i # j => free_as[i] # free_as[j]
        /\ \A i \in DOMAIN free_as :
              /\ free_as[i] \notin DOMAIN engagements
              /\ \A b \in DOMAIN proposals : proposals[b] # free_as[i]

C19_Witness ==
    /\ pc = "while"
    /\ Len(free_as) >= 1
    /\ Cardinality(DOMAIN engagements) >= 2
    /\ \E i \in DOMAIN free_as : tried[free_as[i]] # {}

\* C20: the result does not depend on the order of the keys of as_prefs: every
\* order gives the mapping this run returns.
C20_OrderIndependent ==
    pc = "done" => \A keys \in Perms(Requesters) : gale_shapley(keys) = engagements

C20_Witness ==
    /\ pc = "done"
    /\ NumAS >= 3
    /\ NumIP >= 2
    /\ as_keys[1] \in DOMAIN engagements
    /\ WasTurnedDown(as_keys[1])
    /\ \E a \in Requesters : a \notin DOMAIN engagements

====
